---- MODULE Spec2Model ----
(***************************************************************************)
(* A model of the optimal Wordle solver: the feedback scorer make_guess,   *)
(* the constraint state WordleInformation, the guess valuation             *)
(* get_guess_value with its memoised helper _get_remaining_words, the      *)
(* ranking rank_guesses (single-threaded and on the worker pool) and the   *)
(* game loop play_game.                                                    *)
(*                                                                         *)
(* Letters are the numbers 1..26 ("a" = 1 .. "z" = 26), a word is a        *)
(* sequence of five letters and a feedback string is a sequence of five    *)
(* symbols "=", "+", "-".  A value of get_guess_value (a Python float) is  *)
(* kept as the exact fraction <<numerator, denominator>>.                  *)
(***************************************************************************)
EXTENDS Integers, Sequences, FiniteSets, TLC

VARIABLES
    mode,     \* which entry point of the program this behaviour drives
    sc,       \* make_guess: its arguments and its return value
    fd,       \* a fold of WordleInformation over guesses and their feedback
    en,       \* the ranking engine: the lru caches and the last call
    gm        \* play_game: one game per value of hard_mode, on the same inputs

vars == <<mode, sc, fd, en, gm>>

Idle == [pc |-> "idle"]

----------------------------------------------------------------------------
(* Words *)

NumAlphabetLetters == 26
WordLen == 5

Alphabet == 1..NumAlphabetLetters
Pos == 1..WordLen

\* The words over the first n letters of the alphabet.
WordsOver(n) == [Pos -> 1..n]

\* Words of the documentation and of the tests, letter by letter.
apple == <<1, 16, 16, 12, 5>>
apexz == <<1, 16, 5, 24, 26>>
appep == <<1, 16, 16, 5, 16>>
abbey == <<1, 2, 2, 5, 25>>
opens == <<15, 16, 5, 14, 19>>
babes == <<2, 1, 2, 5, 19>>
kebab == <<11, 5, 2, 1, 2>>
abyss == <<1, 2, 25, 19, 19>>
grain == <<7, 18, 1, 9, 14>>
grown == <<7, 18, 15, 23, 14>>
stews == <<19, 20, 5, 23, 19>>
weeds == <<23, 5, 5, 4, 19>>

\* str.count
Count(letter, word) == Cardinality({i \in DOMAIN word : word[i] = letter})

Min(x, y) == IF x <= y THEN x ELSE y
Max(x, y) == IF x >= y THEN x ELSE y

\* Lexicographic order of two words (Python's str comparison).
RECURSIVE WordLessFrom(_, _, _)
WordLessFrom(u, v, i) ==
    IF i > Len(u) \/ i > Len(v) THEN Len(u) < Len(v)
    ELSE IF u[i] # v[i] THEN u[i] < v[i]
    ELSE WordLessFrom(u, v, i + 1)

WordLess(u, v) == WordLessFrom(u, v, 1)

----------------------------------------------------------------------------
(* make_guess *)

\* The first loop: green tiles, each taking one letter out of true_counts.
\* A first loop that marks a letter green when the answer has it anywhere.
GreenResultsAnywhere(guess, answer) ==
    [i \in Pos |-> IF \E j \in Pos : guess[i] = answer[j] THEN "=" ELSE "-"]

GreenResults(guess, answer) ==
    [i \in Pos |-> IF guess[i] = answer[i] THEN "=" ELSE "-"]

GreenCounts(guess, answer) ==
    [c \in Alphabet |->
        Count(c, answer)
        - Cardinality({i \in Pos : guess[i] = answer[i] /\ guess[i] = c})]

\* A yellow loop that forgets to take the letter out of true_counts.
RECURSIVE YellowLoopNoSubtract(_, _, _, _)
YellowLoopNoSubtract(guess, results, true_counts, idx) ==
    IF idx > WordLen THEN results
    ELSE IF results[idx] # "=" /\ true_counts[guess[idx]] > 0
         THEN YellowLoopNoSubtract(guess, [results EXCEPT ![idx] = "+"],
                                   true_counts, idx + 1)
         ELSE YellowLoopNoSubtract(guess, results, true_counts, idx + 1)

\* The second loop: yellow tiles, left to right, while letters are left.
RECURSIVE YellowLoop(_, _, _, _)
YellowLoop(guess, results, true_counts, idx) ==
    IF idx > WordLen THEN results
    ELSE IF results[idx] = "=" THEN YellowLoop(guess, results, true_counts, idx + 1)
    ELSE IF true_counts[guess[idx]] > 0
         THEN YellowLoop(guess, [results EXCEPT ![idx] = "+"],
                         [true_counts EXCEPT ![guess[idx]] = @ - 1], idx + 1)
         ELSE YellowLoop(guess, results, true_counts, idx + 1)

make_guess(guess, answer) ==
    YellowLoop(guess, GreenResults(guess, answer), GreenCounts(guess, answer), 1)

AllGreen == [i \in Pos |-> "="]

----------------------------------------------------------------------------
(* WordleInformation *)

\* previous_wi = None, and guess = None / output = None.
NoneWI == [is_none |-> TRUE]
NoWord == <<>>

\* dict.get
Get(d, key, default) == IF key \in DOMAIN d THEN d[key] ELSE default

\* new_min after the green and yellow loop: the tally of the round.
NewMin(guess, output) ==
    LET tiles == {i \in Pos : output[i] \in {"=", "+"}}
    IN  [c \in {guess[i] : i \in tiles} |->
            Cardinality({i \in tiles : guess[i] = c})]

\* new_max after the gray loop.
NewMax(guess, output) ==
    LET new_min == NewMin(guess, output)
    IN  [c \in {guess[i] : i \in {j \in Pos : output[j] = "-"}} |->
            Get(new_min, c, 0)]

\* A gray loop that takes every gray letter out of every position, whatever
\* the tally of the round says.
GrayRemovedAlways(guess, output) ==
    {guess[i] : i \in {j \in Pos : output[j] = "-"}}

\* The letters the gray loop removes from every position: new_max is 0.
GrayRemoved(guess, output) ==
    LET new_max == NewMax(guess, output)
    IN  {c \in DOMAIN new_max : new_max[c] = 0}

\* possible_letters after the two loops over the tiles.
TilesApplied(possible_letters, guess, output) ==
    LET removed == GrayRemoved(guess, output)
    IN  [idx \in Pos |->
            (IF output[idx] = "=" THEN {guess[idx]}
             ELSE IF output[idx] = "+" THEN possible_letters[idx] \ {guess[idx]}
             ELSE possible_letters[idx])
            \ removed]

\* A merge that writes the tally of the round over the minimums.
MinOverwritten(minimum_letters, new_min) ==
    [c \in DOMAIN minimum_letters \cup DOMAIN new_min |->
        IF c \in DOMAIN new_min THEN new_min[c] ELSE minimum_letters[c]]

\* minimum_letters after merging new_min: the larger of the two values.
MinMerged(minimum_letters, new_min) ==
    [c \in DOMAIN minimum_letters \cup DOMAIN new_min |->
        IF c \in DOMAIN new_min
        THEN Max(new_min[c], Get(minimum_letters, c, 0))
        ELSE minimum_letters[c]]

\* dict.update
Update(d, e) ==
    [c \in DOMAIN d \cup DOMAIN e |-> IF c \in DOMAIN e THEN e[c] ELSE d[c]]

\* The final loop, over the positions with at most one letter left: the first
\* position that raises, 0 when none does.  list(to_match)[0] raises
\* IndexError on an empty set, minimum_letters[letter] raises KeyError on a
\* letter that has no minimum.
RaisingIdx(possible_letters, minimum_letters) ==
    LET bad == {idx \in Pos :
                    /\ Cardinality(possible_letters[idx]) <= 1
                    /\ possible_letters[idx] \cap DOMAIN minimum_letters = {}}
    IN  IF bad = {} THEN 0 ELSE CHOOSE idx \in bad : \A j \in bad : idx <= j

\* minimum_letters after the final loop: at least the number of positions
\* pinned to the letter.
MinPinned(possible_letters, minimum_letters) ==
    [c \in DOMAIN minimum_letters |->
        IF \E idx \in Pos : possible_letters[idx] = {c}
        THEN Max(Cardinality({idx \in Pos : possible_letters[idx] = {c}}),
                 minimum_letters[c])
        ELSE minimum_letters[c]]

\* WordleInformation(previous_wi, guess, output).  exc is "" when the
\* constructor returns and names the exception when it raises.
WordleInformation(previous_wi, guess, output) ==
    LET fresh == "is_none" \in DOMAIN previous_wi
        pl0   == IF fresh THEN [idx \in Pos |-> Alphabet]
                 ELSE previous_wi.possible_letters
        min0  == IF fresh THEN <<>> ELSE previous_wi.minimum_letters
        max0  == IF fresh THEN <<>> ELSE previous_wi.maximum_letters
        add   == guess # NoWord /\ output # NoWord
        pl    == IF add THEN TilesApplied(pl0, guess, output) ELSE pl0
        minl  == IF add THEN MinMerged(min0, NewMin(guess, output)) ELSE min0
        maxl  == IF add THEN Update(max0, NewMax(guess, output)) ELSE max0
        bad   == RaisingIdx(pl, minl)
    IN  IF bad # 0
        THEN [exc |-> IF pl[bad] = {} THEN "IndexError" ELSE "KeyError",
              possible_letters |-> pl,
              minimum_letters |-> minl,
              maximum_letters |-> maxl]
        ELSE [exc |-> "",
              possible_letters |-> pl,
              minimum_letters |-> MinPinned(pl, minl),
              maximum_letters |-> maxl]

\* WordleInformation()
FreshWI == WordleInformation(NoneWI, NoWord, NoWord)

\* A validity check that forgets the maximums.
is_valid_word_no_max(wi, word) ==
    /\ \A idx \in Pos : word[idx] \in wi.possible_letters[idx]
    /\ \A letter \in DOMAIN wi.minimum_letters :
            Count(letter, word) >= wi.minimum_letters[letter]

is_valid_word(wi, word) ==
    /\ \A idx \in Pos : word[idx] \in wi.possible_letters[idx]
    /\ \A letter \in DOMAIN wi.maximum_letters :
            Count(letter, word) <= wi.maximum_letters[letter]
    /\ \A letter \in DOMAIN wi.minimum_letters :
            Count(letter, word) >= wi.minimum_letters[letter]

----------------------------------------------------------------------------
(* _get_remaining_words and get_guess_value *)

\* weights = None, wi = None.
NoWeights == <<-1>>
IsNoneWI(wi) == "is_none" \in DOMAIN wi

\* A value of get_guess_value is the fraction <<numerator, denominator>> in
\* lowest terms; NoneValue is Python's None.
NoneValue == <<0, 0>>

RECURSIVE Gcd(_, _)
Gcd(x, y) == IF y = 0 THEN x ELSE Gcd(y, x % y)

Fraction(num, den) == LET g == Gcd(num, den) IN <<num \div g, den \div g>>

\* "".join(possible_words), and the generator that cuts the string into
\* pieces of five letters again.
RECURSIVE Join(_)
Join(words) == IF words = <<>> THEN <<>> ELSE Head(words) \o Join(Tail(words))

SplitWords(possible_words_str) ==
    [k \in 1..((Len(possible_words_str) + WordLen - 1) \div WordLen) |->
        SubSeq(possible_words_str, (k - 1) * WordLen + 1,
               Min(k * WordLen, Len(possible_words_str)))]

\* WordleInformation._members, the content __hash__ and __eq__ look at: the
\* sets of the positions and the sorted keys of the two dicts.
Members(wi) ==
    <<wi.possible_letters, DOMAIN wi.minimum_letters, DOMAIN wi.maximum_letters>>

\* The content two objects are compared by when lru_cache looks up a key;
\* a key can hold None in the place of wi.
KeyOf(wi) == IF IsNoneWI(wi) THEN <<>> ELSE Members(wi)

\* The body of _get_remaining_words: the number of the words that are valid
\* under WordleInformation(wi, guess, out).
RemainingWords(wi, guess, out, possible_words_str) ==
    LET possible_words == SplitWords(possible_words_str)
        new_wi == WordleInformation(wi, guess, out)
    IN  [exc   |-> new_wi.exc,
         count |-> IF new_wi.exc # "" THEN 0
                   ELSE Cardinality({k \in DOMAIN possible_words :
                                        is_valid_word(new_wi, possible_words[k])})]

RECURSIVE SumProducts(_, _, _)
SumProducts(counts, weights, k) ==
    IF k > Len(counts) \/ k > Len(weights) THEN 0
    ELSE counts[k] * weights[k] + SumProducts(counts, weights, k + 1)

RECURSIVE Sum(_)
Sum(weights) == IF weights = <<>> THEN 0 ELSE Head(weights) + Sum(Tail(weights))

EmptyCache == <<>>

\* The loop of get_guess_value over the possible words from the k-th on, run
\* in a process whose lru cache of _get_remaining_words is `cache`: 0 for a
\* word the guess is, otherwise what _get_remaining_words returns.  A miss
\* of the cache runs the body and stores its result; a body that raises
\* stores nothing and ends the loop.
RECURSIVE CountsInOrder(_, _, _, _, _, _, _)
CountsInOrder(guess, possible_words, k, wi, possible_words_str, cache, counts) ==
    LET Miss(key, body) ==
            IF body.exc # ""
            THEN [exc |-> body.exc, counts |-> counts, cache |-> cache]
            ELSE CountsInOrder(guess, possible_words, k + 1, wi, possible_words_str,
                               [x \in DOMAIN cache \cup {key} |->
                                    IF x \in DOMAIN cache THEN cache[x] ELSE body.count],
                               Append(counts, body.count))
        Lookup(out, key) ==
            IF out = AllGreen
            THEN CountsInOrder(guess, possible_words, k + 1, wi, possible_words_str,
                               cache, Append(counts, 0))
            ELSE IF key \in DOMAIN cache
            THEN CountsInOrder(guess, possible_words, k + 1, wi, possible_words_str,
                               cache, Append(counts, cache[key]))
            ELSE Miss(key, RemainingWords(wi, guess, out, possible_words_str))
        Pass(out) == Lookup(out, <<KeyOf(wi), guess, out, possible_words_str>>)
    IN  IF k > Len(possible_words)
        THEN [exc |-> "", counts |-> counts, cache |-> cache]
        ELSE Pass(make_guess(guess, possible_words[k]))

\* get_guess_value(guess, possible_words, weights, wi), run in a process
\* whose lru cache of _get_remaining_words is `cache`.  The result is the
\* exception raised ("" when the call returns), the value returned and the
\* cache the call leaves behind.
get_guess_value(guess, possible_words, weights, wi, cache) ==
    LET Average(r, the_weights) ==
            IF r.exc # ""
            THEN [exc |-> r.exc, value |-> NoneValue, cache |-> r.cache]
            ELSE IF Sum(the_weights) = 0
            THEN [exc |-> "ZeroDivisionError", value |-> NoneValue, cache |-> r.cache]
            ELSE [exc |-> "",
                  value |-> Fraction(SumProducts(r.counts, the_weights, 1),
                                     Sum(the_weights)),
                  cache |-> r.cache]
    IN  Average(CountsInOrder(guess, possible_words, 1,
                              IF IsNoneWI(wi) THEN FreshWI ELSE wi,
                              Join(possible_words), cache, <<>>),
                IF weights = NoWeights
                THEN [k \in DOMAIN possible_words |-> 1]
                ELSE weights)

----------------------------------------------------------------------------
(* rank_guesses *)

PoolProcesses == 4
DefaultThreads == 4
ShardsPerPool == 12

\* The loop of the single-threaded path: the values of the guesses in order,
\* up to the first call that raises.
RECURSIVE ValuesInOrder(_, _, _, _, _, _, _)
ValuesInOrder(possible_guesses, k, possible_answers, weights, wi, cache, values) ==
    LET Took(r) ==
            IF r.exc # ""
            THEN [exc |-> r.exc, values |-> values, cache |-> r.cache]
            ELSE ValuesInOrder(possible_guesses, k + 1, possible_answers, weights,
                               wi, r.cache, Append(values, r.value))
    IN  IF k > Len(possible_guesses)
        THEN [exc |-> "", values |-> values, cache |-> cache]
        ELSE Took(get_guess_value(possible_guesses[k], possible_answers,
                                  weights, wi, cache))

\* The chunks of pool.map, run one after the other by one worker process
\* whose cache is `cache`.  A call that raises ends its chunk, the other
\* chunks still run, and map raises the first exception.
RECURSIVE ChunksInOrder(_, _, _, _, _, _, _, _, _, _)
ChunksInOrder(possible_guesses, k, possible_answers, weights, wi, chunksize, cache, values, exc, skip) ==
    LET Took(r) ==
            IF r.exc # ""
            THEN ChunksInOrder(possible_guesses, k + 1, possible_answers, weights,
                               wi, chunksize, r.cache, Append(values, NoneValue),
                               IF exc = "" THEN r.exc ELSE exc,
                               (((k - 1) \div chunksize) + 1) * chunksize)
            ELSE ChunksInOrder(possible_guesses, k + 1, possible_answers, weights,
                               wi, chunksize, r.cache, Append(values, r.value),
                               exc, skip)
    IN  IF k > Len(possible_guesses)
        THEN [exc |-> exc, values |-> values, cache |-> cache]
        ELSE IF k <= skip
        THEN ChunksInOrder(possible_guesses, k + 1, possible_answers, weights, wi,
                           chunksize, cache, Append(values, NoneValue), exc, skip)
        ELSE Took(get_guess_value(possible_guesses[k], possible_answers,
                                  weights, wi, cache))

\* pool.map(func, possible_guesses, chunksize).  With a chunk size of 0 the
\* pool makes no task at all and returns a list of None, one per guess.
PoolMap(possible_guesses, possible_answers, weights, wi, chunksize, cache) ==
    IF chunksize <= 0
    THEN [exc |-> "", values |-> [k \in DOMAIN possible_guesses |-> NoneValue],
          cache |-> cache]
    ELSE ChunksInOrder(possible_guesses, 1, possible_answers, weights, wi,
                       chunksize, cache, <<>>, "", 0)

\* The order of sorted() on (value, guess) tuples.
ValueLess(v, w) == v[1] * w[2] < w[1] * v[2]

PairLess(p, q) ==
    \/ ValueLess(p[1], q[1])
    \/ ~ValueLess(q[1], p[1]) /\ WordLess(p[2], q[2])

\* sorted(): ascending, and stable for pairs that compare equal.
Sorted(pairs) ==
    LET n == Len(pairs)
        place == [k \in 1..n |->
                    1 + Cardinality({j \in 1..n :
                            \/ PairLess(pairs[j], pairs[k])
                            \/ ~PairLess(pairs[k], pairs[j]) /\ j < k})]
    IN  [at \in 1..n |-> pairs[CHOOSE k \in 1..n : place[k] = at]]

\* The body of rank_guesses, its values computed in the process (the caller
\* when threads = 1, a worker of the pool otherwise) whose cache is `cache`.
rank_guesses(possible_guesses, possible_answers, weights, wi, threads, cache) ==
    LET Zipped(r) ==
            [exc |-> r.exc,
             cache |-> r.cache,
             ranked |-> IF r.exc # "" THEN <<>>
                        ELSE Sorted([k \in DOMAIN possible_guesses |->
                                        <<r.values[k], possible_guesses[k]>>])]
    IN  IF threads = 1
        THEN Zipped(ValuesInOrder(possible_guesses, 1, possible_answers, weights,
                                  wi, cache, <<>>))
        ELSE Zipped(PoolMap(possible_guesses, possible_answers, weights, wi,
                            Len(possible_guesses) \div ShardsPerPool, cache))

----------------------------------------------------------------------------
(* Specification SpecScore: one call of make_guess *)

ScoreLetters == 3

ScoreWords ==
    WordsOver(ScoreLetters)
    \cup {apple, apexz, appep, abbey, opens, babes, kebab, abyss}

InitScore ==
    /\ mode = "score"
    /\ sc \in [pc : {"call"}, guess : ScoreWords, answer : ScoreWords, out : {NoWord}]
    /\ fd = Idle
    /\ en = Idle
    /\ gm = Idle

MakeGuess ==
    /\ mode = "score"
    /\ sc.pc = "call"
    /\ sc' = [sc EXCEPT !.pc = "return", !.out = make_guess(sc.guess, sc.answer)]
    /\ UNCHANGED <<mode, fd, en, gm>>

NextScore == MakeGuess

SpecScore == InitScore /\ [][NextScore]_vars

\* C2: make_guess marks position i green exactly when guess[i] = answer[i];
\* for every letter the green and yellow tiles of the guess number
\* min(occurrences in guess, occurrences in answer); the yellow tiles go to
\* the leftmost occurrences that are not green and the rest is gray; and the
\* three documented examples come out as documented.
C2_MultisetScoring ==
    sc.pc = "return" =>
        LET g == sc.guess
            a == sc.answer
            o == sc.out
        IN  /\ \A i \in Pos : o[i] \in {"=", "+", "-"} /\ (o[i] = "=" <=> g[i] = a[i])
            /\ \A c \in Alphabet :
                    Cardinality({i \in Pos : g[i] = c /\ o[i] # "-"})
                        = Min(Count(c, g), Count(c, a))
            /\ \A i, j \in Pos :
                    (i < j /\ g[i] = g[j] /\ o[i] = "-") => o[j] # "+"
            /\ (g = apple /\ a = apexz) => o = <<"=", "=", "-", "-", "+">>
            /\ (g = apexz /\ a = apple) => o = <<"=", "=", "+", "-", "-">>
            /\ (g = appep /\ a = apple) => o = <<"=", "=", "=", "+", "-">>

\* A scored guess with a repeated letter of which an earlier occurrence is
\* yellow and a later one is gray.
C2_Witness ==
    /\ sc.pc = "return"
    /\ \E i, j \in Pos :
            /\ i < j
            /\ sc.guess[i] = sc.guess[j]
            /\ sc.out[i] = "+"
            /\ sc.out[j] = "-"

\* C11: make_guess returns the all-green pattern if and only if the guess
\* is the answer.
C11_AllGreenIffEqual ==
    sc.pc = "return" => (sc.out = AllGreen <=> sc.guess = sc.answer)

\* A guess that is a rearrangement of its answer and is scored with no
\* gray tile and not all green.
C11_Witness ==
    /\ sc.pc = "return"
    /\ sc.guess # sc.answer
    /\ \A c \in Alphabet : Count(c, sc.guess) = Count(c, sc.answer)
    /\ \A i \in Pos : sc.out[i] # "-"
    /\ sc.out # AllGreen

----------------------------------------------------------------------------
(* Specification SpecFold: WordleInformation folded over scored guesses *)

MaxFolds == 3

zzzzz == <<26, 26, 26, 26, 26>>
abcde == <<1, 2, 3, 4, 5>>
fghij == <<6, 7, 8, 9, 10>>
klmno == <<11, 12, 13, 14, 15>>
pqrst == <<16, 17, 18, 19, 20>>
uvwxy == <<21, 22, 23, 24, 25>>

\* The word pools a fold draws its guesses and answers from: every word over
\* the letters a and b, the worked example of the tests, and a sweep of the
\* alphabet.
FoldPool(name) ==
    CASE name = "ab"    -> WordsOver(2)
      [] name = "abbey" -> {abbey, opens, babes, kebab, abyss}
      [] name = "sweep" -> {abcde, fghij, klmno, pqrst, uvwxy, zzzzz}

InitFold ==
    /\ mode = "fold"
    /\ \E name \in {"ab", "abbey", "sweep"} :
            fd = [pc |-> "ready", pool |-> name, wi |-> FreshWI,
                  guess |-> NoWord, word |-> NoWord, n |-> 0]
    /\ sc = Idle
    /\ en = Idle
    /\ gm = Idle

\* wi = WordleInformation(wi, guess, make_guess(guess, word)), for a guess and
\* a word that is valid under wi.  Folds over the words on a and b are
\* counted and stop at MaxFolds; the two small pools are folded to the end.
Fold(guess, word) ==
    /\ mode = "fold"
    /\ fd.pc = "ready"
    /\ fd.pool = "ab" => fd.n < MaxFolds
    /\ LET new_wi == WordleInformation(fd.wi, guess, make_guess(guess, word))
       IN  fd' = [fd EXCEPT !.pc = IF new_wi.exc = "" THEN "ready" ELSE "raised",
                            !.wi = new_wi,
                            !.guess = guess,
                            !.word = word,
                            !.n = IF fd.pool = "ab" THEN @ + 1 ELSE 1]
    /\ UNCHANGED <<mode, sc, en, gm>>

\* The words of the pool that are valid under wi.
ValidWords(wi, pool) == {word \in pool : is_valid_word(wi, word)}

NextFold ==
    \E word \in ValidWords(fd.wi, FoldPool(fd.pool)) :
        \E guess \in FoldPool(fd.pool) : Fold(guess, word)

SpecFold == InitFold /\ [][NextFold]_vars

\* C1: a word that is valid under a state stays valid under the state
\* derived from any guess scored against that word; so the answer of a fold
\* that scores every guess against it is valid under every derived state.
C1_DerivationSound ==
    (fd.pc = "ready" /\ fd.n > 0) => is_valid_word(fd.wi, fd.word)

\* A derived state that pins a position, bounds a letter from above and
\* from below, and under which the scored word is valid although it is not
\* the guess.
C1_Witness ==
    /\ fd.pc = "ready"
    /\ fd.pool = "ab"
    /\ fd.n > 1
    /\ fd.guess # fd.word
    /\ \E idx \in Pos : Cardinality(fd.wi.possible_letters[idx]) = 1
    /\ \E c \in DOMAIN fd.wi.maximum_letters : fd.wi.maximum_letters[c] > 0
    /\ is_valid_word(fd.wi, fd.word)

\* In the state derived every position with one letter left has a minimum
\* for that letter, at least the number of the positions pinned to it.
PinnedLettersCounted(wi) ==
    \A idx \in Pos : \A c \in Alphabet :
        wi.possible_letters[idx] = {c} =>
            /\ c \in DOMAIN wi.minimum_letters
            /\ wi.minimum_letters[c]
                    >= Cardinality({j \in Pos : wi.possible_letters[j] = {c}})

\* C15: every construction from a guess and the feedback of that guess
\* against a word completes, and in its state every position with a single
\* letter left, pinned by a green tile or by the removal of all the other
\* letters, has that letter's minimum recorded, at least the number of the
\* positions pinned to it.
C15_PinnedLettersCounted ==
    /\ fd.pc # "raised"
    /\ (fd.pc = "ready" /\ fd.n > 0) => PinnedLettersCounted(fd.wi)

\* The part of C15 that holds: of the states of the constructions that
\* complete.
C15_WhenItCompletes ==
    (fd.pc = "ready" /\ fd.n > 0) => PinnedLettersCounted(fd.wi)

\* The state new allows no more than the state old: at every position a
\* subset of the letters, for every letter with a minimum a minimum that is
\* not lower, for every letter with a maximum a maximum that is not higher.
Tightens(old, new) ==
    /\ \A idx \in Pos : new.possible_letters[idx] \subseteq old.possible_letters[idx]
    /\ \A c \in DOMAIN old.minimum_letters :
            /\ c \in DOMAIN new.minimum_letters
            /\ new.minimum_letters[c] >= old.minimum_letters[c]
    /\ \A c \in DOMAIN old.maximum_letters :
            /\ c \in DOMAIN new.maximum_letters
            /\ new.maximum_letters[c] <= old.maximum_letters[c]

\* C17: the state derived from a guess scored against a word that is valid
\* under the previous state only tightens it: position sets shrink,
\* minimums do not fall, recorded maximums do not rise, and every word
\* valid under the new state is valid under the previous one, so that the
\* previous possible words filtered by the new state are the whole list
\* filtered by the new state.
C17_OnlyTightens ==
    [][fd'.pc = "ready" =>
            /\ Tightens(fd.wi, fd'.wi)
            /\ \A word \in FoldPool(fd.pool) :
                    is_valid_word(fd'.wi, word) => is_valid_word(fd.wi, word)
            /\ ValidWords(fd'.wi, ValidWords(fd.wi, FoldPool(fd.pool)))
                    = ValidWords(fd'.wi, FoldPool(fd.pool))]_vars

\* A state derived in a second or later round that has raised a minimum to
\* two or more, has a maximum recorded and has left some word of the pool
\* invalid.
C17_Witness ==
    /\ mode = "fold"
    /\ fd.pc = "ready"
    /\ fd.n >= 2
    /\ \E c \in DOMAIN fd.wi.minimum_letters : fd.wi.minimum_letters[c] >= 2
    /\ DOMAIN fd.wi.maximum_letters # {}
    /\ \E word \in FoldPool(fd.pool) : ~is_valid_word(fd.wi, word)

----------------------------------------------------------------------------
(* Specification SpecPattern: WordleInformation folded over guesses with   *)
(* any feedback pattern, as a caller of the constructor can write it       *)

MaxPatterns == 2

Tiles == {"=", "+", "-"}

abbbb == <<1, 2, 2, 2, 2>>
babbb == <<2, 1, 2, 2, 2>>
aabbb == <<1, 1, 2, 2, 2>>

\* The guesses and the patterns a fold draws from.
PatternGuesses == {abbbb, babbb, aabbb}
Patterns == [Pos -> Tiles]

InitPattern ==
    /\ mode = "pattern"
    /\ fd = [pc |-> "ready", wi |-> FreshWI, guess |-> NoWord,
             output |-> NoWord, n |-> 0]
    /\ sc = Idle
    /\ en = Idle
    /\ gm = Idle

\* wi = WordleInformation(wi, guess, output) for any pattern.
Apply(guess, output) ==
    /\ mode = "pattern"
    /\ fd.pc = "ready"
    /\ fd.n < MaxPatterns
    /\ LET Built(new_wi) ==
                fd' = [fd EXCEPT !.pc = IF new_wi.exc = "" THEN "ready" ELSE "raised",
                                 !.wi = new_wi,
                                 !.guess = guess,
                                 !.output = output,
                                 !.n = @ + 1]
       IN  Built(WordleInformation(fd.wi, guess, output))
    /\ UNCHANGED <<mode, sc, en, gm>>

NextPattern == \E guess \in PatternGuesses : \E output \in Patterns : Apply(guess, output)

SpecPattern == InitPattern /\ [][NextPattern]_vars

\* C16: in every state the constructor produces from the empty state and
\* any sequence of guesses and feedback patterns, a letter that has a
\* minimum and a maximum has a minimum that is not above the maximum, also
\* a letter with a minimum from an earlier round that gets a gray tile in
\* a round where it has no green or yellow tile.
C16_MinimumNotAboveMaximum ==
    (fd.pc = "ready" /\ fd.n > 0) =>
        \A c \in DOMAIN fd.wi.minimum_letters \cap DOMAIN fd.wi.maximum_letters :
            fd.wi.minimum_letters[c] <= fd.wi.maximum_letters[c]

----------------------------------------------------------------------------
(* Specification SpecEngine: calls of get_guess_value and rank_guesses in   *)
(* one process, with the lru caches and the worker pool of the module       *)

MaxCalls == 2

ccacc == <<3, 3, 1, 3, 3>>
ccaac == <<3, 3, 1, 1, 3>>
ddddd == <<4, 4, 4, 4, 4>>

\* Two states of two games: "abbbb" then "babbb" played on the answer
\* "ccacc", and "aabbb" played on the answer "ccaac".
OneA ==
    WordleInformation(WordleInformation(NoneWI, abbbb, make_guess(abbbb, ccacc)),
                      babbb, make_guess(babbb, ccacc))
TwoA == WordleInformation(NoneWI, aabbb, make_guess(aabbb, ccaac))

GrainWords == <<grain, grown, stews, weeds>>
WeedsFirst == <<weeds, stews, grown, grain>>
ThirteenWords ==
    <<grain, grown, stews, weeds, abbey, opens, babes, kebab, abyss,
      apple, apexz, appep, abcde>>

\* The arguments the calls are drawn from.
ValueCalls ==
    [guess : {grain}, words : {GrainWords},
     weights : {NoWeights, <<2, 1, 1, 1>>, <<0, 0, 0, 0>>}, wi : {NoneWI}]
    \cup [guess : {ddddd}, words : {<<ccacc, ccaac>>, <<>>},
          weights : {NoWeights}, wi : {OneA, TwoA}]

RankCalls ==
    [guesses : {GrainWords, WeedsFirst, ThirteenWords}, words : {GrainWords},
     weights : {NoWeights}, wi : {NoneWI}, threads : {1, DefaultThreads}]
    \cup [guesses : {<<ddddd, ccacc>>}, words : {<<ccacc, ccaac>>},
          weights : {<<1, 1>>}, wi : {OneA, TwoA}, threads : {1}]

\* The workers of the pool that can take the chunks of a call: any of them,
\* and none (written 1) when the call makes no chunk.
Takers(c) ==
    IF c.threads = 1 \/ Len(c.guesses) \div ShardsPerPool = 0 THEN {1}
    ELSE 1..c.threads

NoCall == [op |-> "none"]

InitEngine ==
    /\ mode = "engine"
    /\ en = [pc |-> "ready",
             remaining_cache |-> EmptyCache,
             rank_cache |-> EmptyCache,
             pool_processes |-> PoolProcesses,
             workers |-> [w \in 1..PoolProcesses |-> EmptyCache],
             call |-> NoCall,
             exc |-> "",
             value |-> NoneValue,
             ranked |-> <<>>,
             calls |-> 0]
    /\ sc = Idle
    /\ fd = Idle
    /\ gm = Idle

\* A call of get_guess_value in the main process.
GetGuessValue(c) ==
    /\ mode = "engine"
    /\ en.calls < MaxCalls
    /\ LET Return(r) ==
                en' = [en EXCEPT !.remaining_cache = r.cache,
                                 !.call = [op |-> "value", args |-> c],
                                 !.exc = r.exc,
                                 !.value = r.value,
                                 !.ranked = <<>>,
                                 !.calls = @ + 1]
       IN  Return(get_guess_value(c.guess, c.words, c.weights, c.wi,
                                  en.remaining_cache))
    /\ UNCHANGED <<mode, sc, fd, gm>>

\* A call of rank_guesses in the main process.  A hit of its lru cache
\* returns the stored list.  Otherwise the pool is replaced when its size is
\* not `threads` (the new workers are forked with the caches of the main
\* process as they are), and the values are computed in the main process
\* (threads = 1) or by the worker of the pool that takes the chunks.
RankGuesses(c, worker) ==
    /\ mode = "engine"
    /\ en.calls < MaxCalls
    /\ worker \in Takers(c)
    /\ LET key == <<c.guesses, c.words, c.weights, KeyOf(c.wi), c.threads>>
           workers == IF en.pool_processes # c.threads
                      THEN [w \in 1..c.threads |-> en.remaining_cache]
                      ELSE en.workers
           Return(r) ==
                en' = [en EXCEPT
                        !.remaining_cache =
                            IF c.threads = 1 THEN r.cache ELSE @,
                        !.workers =
                            IF c.threads = 1 THEN workers
                            ELSE [workers EXCEPT ![worker] = r.cache],
                        !.pool_processes = c.threads,
                        !.rank_cache =
                            IF r.exc # "" THEN @
                            ELSE [k \in DOMAIN en.rank_cache \cup {key} |->
                                    IF k = key THEN r.ranked
                                    ELSE en.rank_cache[k]],
                        !.call = [op |-> "rank", args |-> c],
                        !.exc = r.exc,
                        !.value = NoneValue,
                        !.ranked = r.ranked,
                        !.calls = @ + 1]
       IN  IF key \in DOMAIN en.rank_cache
           THEN en' = [en EXCEPT !.call = [op |-> "rank", args |-> c],
                                 !.exc = "",
                                 !.value = NoneValue,
                                 !.ranked = en.rank_cache[key],
                                 !.calls = @ + 1]
           ELSE Return(rank_guesses(c.guesses, c.words, c.weights, c.wi, c.threads,
                                    IF c.threads = 1 THEN en.remaining_cache
                                    ELSE workers[worker]))
    /\ UNCHANGED <<mode, sc, fd, gm>>

NextEngine ==
    \/ \E c \in ValueCalls : GetGuessValue(c)
    \/ \E c \in RankCalls : \E worker \in Takers(c) : RankGuesses(c, worker)

SpecEngine == InitEngine /\ [][NextEngine]_vars

\* The weighted average the documentation of get_guess_value describes: for
\* every word the number of words that stay valid when the word is the
\* answer, 0 for the guess itself, weighted and divided by the sum of the
\* weights.
ExpectedValue(guess, words, weights, wi) ==
    LET base == IF IsNoneWI(wi) THEN FreshWI ELSE wi
        w == IF weights = NoWeights THEN [k \in DOMAIN words |-> 1] ELSE weights
        remaining ==
            [k \in DOMAIN words |->
                LET out == make_guess(guess, words[k])
                    new_wi == WordleInformation(base, guess, out)
                IN  IF out = AllGreen THEN 0
                    ELSE Cardinality({j \in DOMAIN words :
                                        is_valid_word(new_wi, words[j])})]
    IN  Fraction(SumProducts(remaining, w, 1), Sum(w))

\* The ranking the documentation of rank_guesses describes: every guess of
\* the pool once, with its expected value, in ascending order.
ExpectedRanking(guesses, words, weights, wi) ==
    Sorted([k \in DOMAIN guesses |->
                <<ExpectedValue(guesses[k], words, weights, wi), guesses[k]>>])

\* C4: a call of rank_guesses that returns gives, with threads = 1 and with
\* threads > 1 alike and for a pool of any size, every guess of the pool once
\* with the value get_guess_value has for it.
C4_SameRankingOnPool ==
    (en.call.op = "rank" /\ en.exc = "") =>
        LET c == en.call.args
        IN  /\ Len(en.ranked) = Len(c.guesses)
            /\ \A k \in DOMAIN c.guesses :
                    \E at \in DOMAIN en.ranked :
                        en.ranked[at] =
                            <<ExpectedValue(c.guesses[k], c.words, c.weights, c.wi),
                              c.guesses[k]>>

\* C5: the list rank_guesses returns is in ascending order of value, equal
\* values in the order of the words, and the order of the guesses in it is
\* the same whatever the order of the pool and whether the values were
\* computed in the caller or on the pool.
C5_OrderIndependent ==
    (en.call.op = "rank" /\ en.exc = "") =>
        LET c == en.call.args
            expected == ExpectedRanking(c.guesses, c.words, c.weights, c.wi)
        IN  /\ \A at \in 1..(Len(en.ranked) - 1) :
                    ~PairLess(en.ranked[at + 1], en.ranked[at])
            /\ [at \in DOMAIN en.ranked |-> en.ranked[at][2]]
                    = [at \in DOMAIN expected |-> expected[at][2]]

\* The part of C5 that holds of every call: the list is in ascending order
\* of (value, guess).
C5_Ascending ==
    (en.call.op = "rank" /\ en.exc = "") =>
        \A at \in 1..(Len(en.ranked) - 1) :
            ~PairLess(en.ranked[at + 1], en.ranked[at])

\* C6: a call of get_guess_value that returns gives the weighted average of
\* the remaining-word counts, 5/4 and 1 in the two documented examples.
C6_WeightedAverage ==
    (en.call.op = "value" /\ en.exc = "") =>
        LET c == en.call.args
        IN  /\ en.value = ExpectedValue(c.guess, c.words, c.weights, c.wi)
            /\ (c.guess = grain /\ c.words = GrainWords /\ c.weights = NoWeights)
                    => en.value = <<5, 4>>
            /\ (c.guess = grain /\ c.words = GrainWords /\ c.weights = <<2, 1, 1, 1>>)
                    => en.value = <<1, 1>>

\* C6 for a call whose cache is empty: the first call of a process.
C6_FirstCall ==
    (en.call.op = "value" /\ en.exc = "" /\ en.calls = 1) =>
        LET c == en.call.args
        IN  en.value = ExpectedValue(c.guess, c.words, c.weights, c.wi)

\* A call of get_guess_value that has nothing to evaluate: no possible word,
\* or weights whose sum is zero.
NothingToEvaluate(c) ==
    \/ c.words = <<>>
    \/ Sum(IF c.weights = NoWeights THEN [k \in DOMAIN c.words |-> 1]
           ELSE c.weights) = 0

\* C12: a call of get_guess_value with no possible word or with weights
\* whose sum is zero ends in a failure of its own, one the function raises
\* for this case and not an arithmetic error of the division, and returns
\* no number.
C12_ExplicitFailure ==
    (en.call.op = "value" /\ NothingToEvaluate(en.call.args)) =>
        /\ en.exc \notin {"", "ZeroDivisionError"}
        /\ en.value = NoneValue

\* The part of C12 that holds: such a call returns no number.
C12_NoNumber ==
    (en.call.op = "value" /\ NothingToEvaluate(en.call.args)) =>
        /\ en.exc # ""
        /\ en.value = NoneValue

\* C14: memoization never changes a result.  Every call of get_guess_value
\* and of rank_guesses ends as the same call ends in a process whose caches
\* are empty: the same exception or the same value, the same ranking.
C14_CachesTransparent ==
    /\ en.call.op = "value" =>
            LET c == en.call.args
                Same(r) == en.exc = r.exc /\ en.value = r.value
            IN  Same(get_guess_value(c.guess, c.words, c.weights, c.wi, EmptyCache))
    /\ en.call.op = "rank" =>
            LET c == en.call.args
                Same(r) == en.exc = r.exc /\ en.ranked = r.ranked
            IN  Same(rank_guesses(c.guesses, c.words, c.weights, c.wi, c.threads,
                                  EmptyCache))

----------------------------------------------------------------------------
(* Specification SpecGame: play_game, called in normal mode and then in     *)
(* hard mode on the same answer, opening guess, word list and weights       *)

MaxRounds == 6
LostResult == 7
ImpossibleResult == 8

bight == <<2, 9, 7, 8, 20>>
eight == <<5, 9, 7, 8, 20>>
fight == <<6, 9, 7, 8, 20>>
light == <<12, 9, 7, 8, 20>>
might == <<13, 9, 7, 8, 20>>
night == <<14, 9, 7, 8, 20>>
right == <<18, 9, 7, 8, 20>>
sight == <<19, 9, 7, 8, 20>>
tight == <<20, 9, 7, 8, 20>>
wight == <<23, 9, 7, 8, 20>>
flown == <<6, 12, 15, 23, 14>>
brims == <<2, 18, 9, 13, 19>>
color == <<3, 15, 12, 15, 18>>
llama == <<12, 12, 1, 13, 1>>
slope == <<19, 12, 15, 16, 5>>

\* Four word lists: twelve words (enough for rank_guesses to hand one guess
\* to every chunk of the pool), six words that sweep the alphabet, three
\* words of which one repeats a letter, and two words that differ in their
\* first letter, which one of them repeats.
IghtWords ==
    <<bight, fight, light, might, night, right, sight, tight, wight,
      flown, brims, eight>>
SweepWords == <<abcde, fghij, klmno, pqrst, uvwxy, zzzzz>>
LlamaWords == <<color, llama, slope>>
TightWords == <<eight, tight>>

Ones(words) == [k \in DOMAIN words |-> 1]
Range(seq) == {seq[k] : k \in DOMAIN seq}

\* The calls the games are drawn from.
GameCalls ==
    [answer : Range(IghtWords) \cup {abbey}, initial_guess : Range(IghtWords),
     possible_words : {IghtWords}, weights : {Ones(IghtWords)}]
    \cup [answer : Range(IghtWords) \cup {abbey}, initial_guess : {tight, flown},
     possible_words : {IghtWords}, weights : {[k \in 1..12 |-> k]}]
    \cup [answer : Range(SweepWords), initial_guess : {abcde},
          possible_words : {SweepWords}, weights : {Ones(SweepWords), NoWeights}]
    \cup [answer : Range(LlamaWords), initial_guess : Range(LlamaWords),
          possible_words : {LlamaWords}, weights : {Ones(LlamaWords)}]
    \cup [answer : Range(TightWords), initial_guess : Range(TightWords),
          possible_words : {TightWords}, weights : {Ones(TightWords)}]

\* The subsequence of seq at the positions in keep.
Keep(seq, keep) ==
    [at \in 1..Cardinality(keep) |->
        seq[CHOOSE k \in keep : Cardinality({j \in keep : j <= k}) = at]]

\* A filter that keeps every word.
KeepAll(possible_solutions, weights, wi) ==
    LET keep == 1..Min(Len(possible_solutions), Len(weights))
    IN  [solutions |-> Keep(possible_solutions, keep), weights |-> Keep(weights, keep)]

\* The loop over zip(possible_solutions, weights): the words that are valid
\* under wi, with their weights.
FilterSolutions(possible_solutions, weights, wi) ==
    LET keep == {k \in 1..Min(Len(possible_solutions), Len(weights)) :
                    is_valid_word(wi, possible_solutions[k])}
    IN  [solutions |-> Keep(possible_solutions, keep), weights |-> Keep(weights, keep)]

\* A choice of the next guess that takes the first of the ranking in hard
\* mode too.
NextGuessFirst(hard_mode, ranked_guesses, possible_solutions, guess) ==
    ranked_guesses[1][2]

\* A choice of the next guess whose hard-mode loop has no break: it ends on
\* the last possible solution of the ranking.
NextGuessNoBreak(hard_mode, ranked_guesses, possible_solutions, guess) ==
    IF ~hard_mode THEN ranked_guesses[1][2]
    ELSE LET hits == {at \in DOMAIN ranked_guesses :
                        ranked_guesses[at][2] \in Range(possible_solutions)}
         IN  IF hits = {} THEN guess
             ELSE ranked_guesses[CHOOSE at \in hits : \A j \in hits : at >= j][2]

\* The choice of the next guess: the first of the ranking, in hard mode the
\* first of the ranking that is a possible solution (the guess stays as it
\* is when there is none).
NextGuess(hard_mode, ranked_guesses, possible_solutions, guess) ==
    IF ~hard_mode THEN ranked_guesses[1][2]
    ELSE LET hits == {at \in DOMAIN ranked_guesses :
                        ranked_guesses[at][2] \in Range(possible_solutions)}
         IN  IF hits = {} THEN guess
             ELSE ranked_guesses[CHOOSE at \in hits : \A j \in hits : at <= j][2]

NotCalled ==
    [pc |-> "call", wi |-> FreshWI, possible_solutions |-> <<>>, weights |-> <<>>,
     before |-> <<>>, guess |-> NoWord, played |-> <<>>, out |-> NoWord,
     guess_count |-> 0, outside |-> 0, result |-> 0, exc |-> ""]

Ended == {"returned", "raised"}

InitGame ==
    /\ mode = "game"
    /\ \E c \in GameCalls :
            gm = [answer |-> c.answer,
                  initial_guess |-> c.initial_guess,
                  possible_words |-> c.possible_words,
                  weights |-> c.weights,
                  g |-> [hard_mode \in BOOLEAN |-> NotCalled]]
    /\ sc = Idle
    /\ fd = Idle
    /\ en = Idle

\* The call of play_game up to its loop: 8 when the answer is not in the
\* word list.  The hard-mode call is made when the normal one has ended.
Start(hard_mode) ==
    /\ mode = "game"
    /\ gm.g[hard_mode].pc = "call"
    /\ hard_mode => gm.g[FALSE].pc \in Ended
    /\ gm' = [gm EXCEPT !.g[hard_mode] =
                IF gm.answer \notin Range(gm.possible_words)
                THEN [@ EXCEPT !.pc = "returned", !.result = ImpossibleResult]
                ELSE [@ EXCEPT !.pc = "loop",
                               !.possible_solutions = gm.possible_words,
                               !.weights = gm.weights,
                               !.guess = gm.initial_guess]]
    /\ UNCHANGED <<mode, sc, fd, en>>

\* One pass of the loop of play_game.  `played`, `before` and `outside` keep
\* the guesses made, the possible solutions before the pass and the number
\* of guesses chosen that were no possible solution.  The values the ranking
\* stores in the lru caches are the values it computes again, because every
\* possible answer it is given is valid under wi; so each ranking is
\* computed here as on empty caches.
Round(hard_mode) ==
    /\ mode = "game"
    /\ gm.g[hard_mode].pc = "loop"
    /\ LET s == gm.g[hard_mode]
           guess_count == s.guess_count + 1
           Chosen(out, wi, new, guess) ==
                [s EXCEPT !.wi = wi,
                          !.possible_solutions = new.solutions,
                          !.weights = new.weights,
                          !.before = s.possible_solutions,
                          !.guess = guess,
                          !.played = Append(@, s.guess),
                          !.out = out,
                          !.guess_count = guess_count,
                          !.outside = IF guess \in Range(new.solutions)
                                      THEN @ ELSE @ + 1,
                          !.pc = IF out = AllGreen \/ guess_count = MaxRounds
                                 THEN "returned" ELSE @,
                          !.result = IF out = AllGreen THEN guess_count
                                     ELSE IF guess_count = MaxRounds THEN LostResult
                                     ELSE @]
           Ranked(out, wi, new, ranking) ==
                IF ranking.exc # ""
                THEN [s EXCEPT !.pc = "raised", !.exc = ranking.exc]
                ELSE IF Len(ranking.ranked) = 0
                THEN [s EXCEPT !.pc = "returned", !.result = LostResult]
                ELSE Chosen(out, wi, new,
                            NextGuess(hard_mode, ranking.ranked, new.solutions, s.guess))
           Filtered(out, wi, new) ==
                Ranked(out, wi, new,
                       rank_guesses(gm.possible_words, new.solutions, new.weights,
                                    wi, DefaultThreads, EmptyCache))
           Derived(out, wi) ==
                IF wi.exc # ""
                THEN [s EXCEPT !.pc = "raised", !.exc = wi.exc]
                ELSE IF s.weights = NoWeights
                THEN [s EXCEPT !.pc = "raised", !.exc = "TypeError"]
                ELSE Filtered(out, wi,
                              FilterSolutions(s.possible_solutions, s.weights, wi))
           Scored(out) == Derived(out, WordleInformation(s.wi, s.guess, out))
       IN  gm' = [gm EXCEPT !.g[hard_mode] = Scored(make_guess(s.guess, gm.answer))]
    /\ UNCHANGED <<mode, sc, fd, en>>

NextGame == \E hard_mode \in BOOLEAN : Start(hard_mode) \/ Round(hard_mode)

SpecGame == InitGame /\ [][NextGame]_vars

\* The game has made at least one pass of its loop and has not raised.
Played(s) == s.pc \in {"loop", "returned"} /\ s.guess_count >= 1

\* The words of the list that give, for every guess made, the feedback the
\* answer gave.
Consistent(s) ==
    {word \in Range(gm.possible_words) :
        \A k \in DOMAIN s.played :
            make_guess(s.played[k], word) = make_guess(s.played[k], gm.answer)}

\* C3 as stated: after each round possible_solutions is exactly the set of
\* the words of the list that are consistent with all the feedback observed.
C3_ExactlyConsistent ==
    \A hard_mode \in BOOLEAN :
        LET s == gm.g[hard_mode]
        IN  Played(s) => Range(s.possible_solutions) = Consistent(s)

\* C3 as amended: after each round possible_solutions is exactly the set of
\* the words of the list that are valid under the state derived from all the
\* rounds; it holds every word consistent with all the feedback observed,
\* the answer among them, and can hold more.
C3_ValidUnderState ==
    \A hard_mode \in BOOLEAN :
        LET s == gm.g[hard_mode]
        IN  Played(s) =>
                /\ Range(s.possible_solutions)
                        = {word \in Range(gm.possible_words) : is_valid_word(s.wi, word)}
                /\ Consistent(s) \subseteq Range(s.possible_solutions)
                /\ gm.answer \in Consistent(s)

\* A round after which a word that contradicts the feedback is still a
\* possible solution.
C3_Witness ==
    \E hard_mode \in BOOLEAN :
        LET s == gm.g[hard_mode]
        IN  /\ Played(s)
            /\ Range(s.possible_solutions) # Consistent(s)
            /\ Cardinality(Range(s.possible_solutions)) < Len(gm.possible_words)

\* The round in which a played guess first was the answer, 0 when none was.
FirstHit(s) ==
    LET hits == {k \in DOMAIN s.played : s.played[k] = gm.answer}
    IN  IF hits = {} THEN 0 ELSE CHOOSE k \in hits : \A j \in hits : k <= j

\* C7: every call of play_game returns, after at most 6 rounds: 8 with no
\* round played when the answer is not in the word list, otherwise the round
\* of the first guess that is the answer, otherwise 7 after six rounds.
C7_ReturnsRoundCount ==
    \A hard_mode \in BOOLEAN :
        LET s == gm.g[hard_mode]
        IN  /\ s.pc # "raised"
            /\ s.guess_count <= MaxRounds
            /\ s.pc = "returned" =>
                    IF gm.answer \notin Range(gm.possible_words)
                    THEN s.result = ImpossibleResult /\ s.guess_count = 0
                    ELSE IF FirstHit(s) # 0
                    THEN s.result = FirstHit(s) /\ s.guess_count = FirstHit(s)
                    ELSE s.result = LostResult /\ s.guess_count = MaxRounds

\* The part of C7 that holds: a call that returns returns one of these.
C7_WhenItReturns ==
    \A hard_mode \in BOOLEAN :
        LET s == gm.g[hard_mode]
        IN  /\ s.guess_count <= MaxRounds
            /\ s.pc = "returned" =>
                    IF gm.answer \notin Range(gm.possible_words)
                    THEN s.result = ImpossibleResult /\ s.guess_count = 0
                    ELSE IF FirstHit(s) # 0
                    THEN s.result = FirstHit(s) /\ s.guess_count = FirstHit(s)
                    ELSE s.result = LostResult /\ s.guess_count = MaxRounds

\* C8: in hard mode every guess chosen after the opening guess is one of the
\* possible solutions of the moment; and in both modes the feedback of a
\* round is that of the guess played against the answer, green exactly where
\* the two agree.
C8_HardModeGuessIsCandidate ==
    /\ Played(gm.g[TRUE]) =>
            gm.g[TRUE].guess \in Range(gm.g[TRUE].possible_solutions)
    /\ \A hard_mode \in BOOLEAN :
            LET s == gm.g[hard_mode]
            IN  Played(s) =>
                    \A idx \in Pos :
                        s.out[idx] = "=" <=>
                            s.played[Len(s.played)][idx] = gm.answer[idx]

\* A hard-mode round that passes over the first guess of the ranking,
\* which is the guess normal mode played next and is no possible solution.
C8_Witness ==
    /\ Played(gm.g[TRUE])
    /\ gm.g[TRUE].guess_count = 1
    /\ Len(gm.g[FALSE].played) >= 2
    /\ gm.g[FALSE].played[2] # gm.g[TRUE].guess
    /\ gm.g[FALSE].played[2] \notin Range(gm.g[TRUE].possible_solutions)

\* C9 as stated: hard mode never returns a higher round count than normal
\* mode on the same game.
C9_HardNeverHigher ==
    (gm.g[FALSE].pc = "returned" /\ gm.g[TRUE].pc = "returned") =>
        gm.g[TRUE].result <= gm.g[FALSE].result

\* C9 as amended: hard mode returns the round count of normal mode, so none
\* higher, when every guess normal mode chose was a possible solution.
C9_SameWhenNormalStaysInside ==
    (gm.g[FALSE].pc = "returned" /\ gm.g[TRUE].pc = "returned"
        /\ gm.g[FALSE].outside = 0) =>
        gm.g[TRUE].result = gm.g[FALSE].result

\* Two games of three rounds or more in which normal mode chose possible
\* solutions only.
C9_Witness ==
    /\ gm.g[FALSE].pc = "returned"
    /\ gm.g[TRUE].pc = "returned"
    /\ gm.g[FALSE].outside = 0
    /\ gm.g[FALSE].result >= 3
    /\ gm.g[FALSE].result <= MaxRounds
    /\ gm.g[TRUE].result = gm.g[FALSE].result

\* C10 as stated: after every round possible_solutions is a proper subset of
\* what it was before the round.
C10_StrictlyNarrows ==
    \A hard_mode \in BOOLEAN :
        LET s == gm.g[hard_mode]
        IN  Played(s) =>
                /\ Range(s.possible_solutions) \subseteq Range(s.before)
                /\ Range(s.possible_solutions) # Range(s.before)

\* C10 as amended: after every round possible_solutions is a subset of what
\* it was before the round, and a proper one when the guess of the round was
\* one of the possible solutions, unless the answer was the only one left.
C10_NarrowsOnCandidateGuess ==
    \A hard_mode \in BOOLEAN :
        LET s == gm.g[hard_mode]
            guess == s.played[Len(s.played)]
        IN  Played(s) =>
                /\ Range(s.possible_solutions) \subseteq Range(s.before)
                /\ (guess \in Range(s.before) /\ Range(s.before) # {gm.answer})
                        => Range(s.possible_solutions) # Range(s.before)

\* A round, not the first, whose guess was a possible solution other than
\* the answer and took at least itself out of the possible solutions.
C10_Witness ==
    \E hard_mode \in BOOLEAN :
        LET s == gm.g[hard_mode]
            guess == s.played[Len(s.played)]
        IN  /\ Played(s)
            /\ s.guess_count >= 2
            /\ guess \in Range(s.before)
            /\ guess # gm.answer
            /\ guess \notin Range(s.possible_solutions)
            /\ Range(s.possible_solutions) # Range(s.before)

\* C13: a call of play_game without weights plays the game with the weight 1
\* for every word, as the call with a list of ones does: it does not raise
\* over the missing weights, and after each round every possible solution
\* left has the weight 1.
C13_DefaultWeightsUniform ==
    \A hard_mode \in BOOLEAN :
        LET s == gm.g[hard_mode]
        IN  gm.weights = NoWeights =>
                /\ ~(s.pc = "raised" /\ s.exc = "TypeError")
                /\ Played(s) => s.weights = Ones(s.possible_solutions)

====
